---------------------------- MODULE Spec2Model ----------------------------
(***************************************************************************)
(* Model of road-network-json (src/src/main.rs): a GML document is scanned *)
(* token by token, every GenericCityObject element is rebuilt as an XML    *)
(* fragment (parse_gml_file), the fragment is parsed again into a feature  *)
(* (parse_city_object) and the feature is written as one JSON file.        *)
(*                                                                         *)
(* Representation.  An element name is modelled by the suffix the code     *)
(* tests with ends_with (the namespace prefix is dropped).  The only tag   *)
(* attribute modelled is `name`.  A text is a sequence of whitespace-      *)
(* separated words and a word is a sequence of characters, so that the     *)
(* string operations of the code (push_str, split_whitespace, parse) are   *)
(* computed and not assumed.                                               *)
(***************************************************************************)
EXTENDS Integers, Sequences, FiniteSets, TLC

(***************************************************************************)
(* Bounds of the model.                                                    *)
(***************************************************************************)
\* tokens the tokenizer delivers to parse_gml_file during one run of main
MaxTokens == 8
\* the same for the runs that try the kinds of identifier values
MaxIdTokens == 10
\* the same for the runs that try identifiers with path components
MaxPathTokens == 6
\* tokens the tokenizer delivers to parse_city_object for one fragment: of
\* attribute elements, of posLists
MaxXTokens == 6
MaxPTokens == 5
\* open elements the tokenizer tracks at any time: in a document, in a
\* document that tries the identifier kinds, in a fragment
MaxDepth == 2
MaxIdDepth == 2
MaxXDepth == 2
\* words of a posList text
MaxWords == 4

(***************************************************************************)
(* Names.                                                                  *)
(***************************************************************************)
GenericCityObject == "GenericCityObject"
stringAttribute == "stringAttribute"
intAttribute == "intAttribute"
doubleAttribute == "doubleAttribute"
posList == "posList"
value == "value"

AttrKinds == {stringAttribute, intAttribute, doubleAttribute}
ElemNames == AttrKinds \cup {GenericCityObject, posList, value}

\* values of the `name` attribute; NoName: the tag carries no `name` attribute
ROUTE_ID == "ROUTE_ID"
PED_ZONE_ID == "PED_ZONE_ID"
NoName == "<no name attribute>"
AttrNames == {ROUTE_ID, PED_ZONE_ID}

(***************************************************************************)
(* Texts.  Characters: two digits, the decimal point, a letter, the word   *)
(* NaN taken as one unit, and "<": a markup character that the document    *)
(* carried escaped (&lt;) and that unescape() turned into markup.  For the *)
(* file names: the path separator and the parent component "..", taken as  *)
(* one unit.                                                               *)
(***************************************************************************)
Digits == {"1", "2"}
Lt == "<"
Sep == "/"
Up == ".."

W1 == <<"1">>
W2 == <<"2">>
Wdec == <<"1", ".">>
Wx == <<"x">>
Wnan == <<"NaN">>
Wlt == <<Lt>>
\* the text "../1"
Wup == <<Up, Sep, "1">>

RECURSIVE SeqsUpTo(_, _)
SeqsUpTo(S, n) ==
    IF n = 0 THEN {<<>>}
    ELSE LET shorter == SeqsUpTo(S, n - 1)
         IN shorter \cup {Append(s, w) : s \in shorter, w \in S}

\* one-word texts, and the texts of several words a posList holds
WordTexts == {<<W1>>, <<Wdec>>, <<Wx>>, <<Wlt>>}
PosWords == {W1, W2, Wx, Wnan}
PosTexts == SeqsUpTo(PosWords, MaxWords) \ {<<>>}

\* String::push_str of a text to a string: no whitespace separates the two,
\* so the last word of the one and the first word of the other become one word
PushStr(s, t) ==
    IF s = <<>> THEN t
    ELSE IF t = <<>> THEN s
    ELSE SubSeq(s, 1, Len(s) - 1) \o <<s[Len(s)] \o t[1]>> \o SubSeq(t, 2, Len(t))

\* str::split_whitespace
SplitWhitespace(s) == s

HasMarkup(t) == \E i \in 1..Len(t) : \E j \in 1..Len(t[i]) : t[i][j] = Lt

(***************************************************************************)
(* str::parse.  A result is [ok |-> FALSE] or [ok |-> TRUE, val |-> v].    *)
(* The words of the model are far shorter than the 19 digits at which      *)
(* parse::<i64> overflows.                                                 *)
(***************************************************************************)
RECURSIVE DecimalValue(_)
DecimalValue(w) ==
    IF w = <<>> THEN 0
    ELSE 10 * DecimalValue(SubSeq(w, 1, Len(w) - 1))
         + (IF w[Len(w)] = "1" THEN 1 ELSE 2)

IsDigits(w) == Len(w) > 0 /\ \A i \in 1..Len(w) : w[i] \in Digits

\* parse::<i64> of one word
ParseI64Word(w) ==
    IF IsDigits(w) THEN [ok |-> TRUE, val |-> DecimalValue(w)] ELSE [ok |-> FALSE]

\* parse::<f64> of one word: NaN, or digits with at most one decimal point
\* and at least one digit.  The value is mantissa * 10^-frac (the alphabet
\* has no zero, so the pair is canonical).
ParseF64Word(w) ==
    LET dots == {i \in 1..Len(w) : w[i] = "."}
        digs == SelectSeq(w, LAMBDA c : c \in Digits)
    IN  IF w = Wnan THEN [ok |-> TRUE, val |-> [nan |-> TRUE]]
        ELSE IF /\ \A i \in 1..Len(w) : w[i] \in Digits \cup {"."}
                /\ Cardinality(dots) <= 1
                /\ Len(digs) > 0
        THEN [ok |-> TRUE,
              val |-> [m |-> DecimalValue(digs),
                       frac |-> IF dots = {} THEN 0
                                ELSE Len(w) - (CHOOSE i \in dots : TRUE)]]
        ELSE [ok |-> FALSE]

\* parse of a whole string: it fails on the empty string and on a string
\* that holds whitespace (several words)
ParseI64(s) == IF Len(s) = 1 THEN ParseI64Word(s[1]) ELSE [ok |-> FALSE]
ParseF64(s) == IF Len(s) = 1 THEN ParseF64Word(s[1]) ELSE [ok |-> FALSE]

(***************************************************************************)
(* Tokenizer events (quick_xml::events::Event) as the two loops match      *)
(* them.  Other: every event of the `_ => {}` arm (Empty, Comment, CData,  *)
(* Decl, PI, DocType).                                                     *)
(***************************************************************************)
StartEv(n, a) == [type |-> "Start", name |-> n, attr |-> a]
EndEv(n) == [type |-> "End", name |-> n]
TextEv(t) == [type |-> "Text", text |-> t]
OtherEv == [type |-> "Other"]
EofEv == [type |-> "Eof"]
ErrEv == [type |-> "Err"]
NoEv == [type |-> "None"]

\* the start tags of a fragment: only attribute elements carry a `name`;
\* value stands for every element the extractor does not recognize
StartTags ==
    {StartEv(n, a) : n \in AttrKinds, a \in AttrNames \cup {NoName}}
    \cup {StartEv(n, NoName) : n \in {posList, value}}

(***************************************************************************)
(* PropertyValue and the feature.                                          *)
(***************************************************************************)
PVString(s) == [tag |-> "String", s |-> s]
PVInt(i) == [tag |-> "Int", i |-> i]
PVFloat(f) == [tag |-> "Float", f |-> f]

EmptyMap == <<>>
HasKey(m, k) == k \in DOMAIN m
\* HashMap::insert: a new entry, or the value of the existing one replaced
Insert(m, k, v) == [x \in DOMAIN m \cup {k} |-> IF x = k THEN v ELSE m[x]]

GeoJsonFeature(props, coords) ==
    [feature_type |-> "Feature",
     geometry |-> [geometry_type |-> "LineString", coordinates |-> coords],
     properties |-> props]

(***************************************************************************)
(* proj4rs::transform::transform from HK80 to WGS84.  The library is not   *)
(* part of the repository: the projection is an uninterpreted function of  *)
(* the point, and it fails on a point that holds NaN.                      *)
(***************************************************************************)
IsNaN(f) == "nan" \in DOMAIN f
Transform(point) ==
    IF IsNaN(point[1]) \/ IsNaN(point[2]) THEN [ok |-> FALSE]
    ELSE [ok |-> TRUE,
          point |-> <<[lon_of |-> <<point[1], point[2]>>],
                      [lat_of |-> <<point[1], point[2]>>]>>]

(***************************************************************************)
(* parse_city_object: the state of its loop and one iteration per event.   *)
(***************************************************************************)
XInitState ==
    [properties |-> EmptyMap,
     coordinates |-> <<>>,
     in_string_attr |-> FALSE,
     in_int_attr |-> FALSE,
     in_double_attr |-> FALSE,
     in_pos_list |-> FALSE,
     current_attr_name |-> "",
     current_value |-> <<>>,
     done |-> FALSE]

\* the attribute loop of a start tag: a `name` attribute sets the key
ScanNameAttr(st, ev) ==
    IF ev.attr # NoName THEN ev.attr ELSE st.current_attr_name

XStartElement(st, ev) ==
    IF ev.name = stringAttribute
    THEN [st EXCEPT !.in_string_attr = TRUE,
                    !.current_attr_name = ScanNameAttr(st, ev)]
    ELSE IF ev.name = intAttribute
    THEN [st EXCEPT !.in_int_attr = TRUE,
                    !.current_attr_name = ScanNameAttr(st, ev)]
    ELSE IF ev.name = doubleAttribute
    THEN [st EXCEPT !.in_double_attr = TRUE,
                    !.current_attr_name = ScanNameAttr(st, ev)]
    ELSE IF ev.name = posList
    THEN [st EXCEPT !.in_pos_list = TRUE, !.current_value = <<>>]
    ELSE st

EndStringAttribute(st) ==
    [st EXCEPT !.properties = Insert(st.properties, st.current_attr_name,
                                     PVString(st.current_value)),
               !.in_string_attr = FALSE,
               !.current_value = <<>>]

\* a variant that stores 0 when the text is no integer (unwrap_or_default)
EndIntAttributeDefault(st) ==
    LET r == ParseI64(st.current_value)
    IN  [st EXCEPT !.properties = Insert(st.properties, st.current_attr_name,
                                         PVInt(IF r.ok THEN r.val ELSE 0)),
                   !.in_int_attr = FALSE,
                   !.current_value = <<>>]

EndIntAttribute(st) ==
    LET r == ParseI64(st.current_value)
    IN  [st EXCEPT !.properties = IF r.ok
                                  THEN Insert(st.properties, st.current_attr_name,
                                              PVInt(r.val))
                                  ELSE st.properties,
                   !.in_int_attr = FALSE,
                   !.current_value = <<>>]

EndDoubleAttribute(st) ==
    LET r == ParseF64(st.current_value)
    IN  [st EXCEPT !.properties = IF r.ok
                                  THEN Insert(st.properties, st.current_attr_name,
                                              PVFloat(r.val))
                                  ELSE st.properties,
                   !.in_double_attr = FALSE,
                   !.current_value = <<>>]

\* split_whitespace().filter_map(|s| s.parse::<f64>().ok()).collect()
RECURSIVE FilterMapParse(_)
FilterMapParse(words) ==
    IF words = <<>> THEN <<>>
    ELSE LET r == ParseF64Word(Head(words))
         IN  (IF r.ok THEN <<r.val>> ELSE <<>>) \o FilterMapParse(Tail(words))

\* a variant that leaves the loop at the first pair that fails to project
RECURSIVE TransformChunksAbort(_, _)
TransformChunksAbort(coordinates, coords) ==
    IF coords = <<>> THEN coordinates
    ELSE IF Len(coords) = 1 THEN coordinates
    ELSE LET r == Transform(<<coords[1], coords[2]>>)
         IN  IF r.ok
             THEN TransformChunksAbort(Append(coordinates, r.point),
                                       SubSeq(coords, 3, Len(coords)))
             ELSE coordinates

\* for chunk in coords.chunks(2): a chunk of two is transformed and, when
\* the transform succeeds, pushed; the last chunk of an odd list has one
\* element and is passed over
RECURSIVE TransformChunks(_, _)
TransformChunks(coordinates, coords) ==
    IF coords = <<>> THEN coordinates
    ELSE IF Len(coords) = 1 THEN coordinates
    ELSE LET r == Transform(<<coords[1], coords[2]>>)
         IN  TransformChunks(IF r.ok THEN Append(coordinates, r.point)
                             ELSE coordinates,
                             SubSeq(coords, 3, Len(coords)))

\* a variant that pairs the words first and drops a pair with a word that is
\* no number
RECURSIVE PairThenFilter(_)
PairThenFilter(words) ==
    IF Len(words) < 2 THEN <<>>
    ELSE LET a == ParseF64Word(words[1])
             b == ParseF64Word(words[2])
         IN  (IF a.ok /\ b.ok THEN <<a.val, b.val>> ELSE <<>>)
             \o PairThenFilter(SubSeq(words, 3, Len(words)))

EndPosListPairFirst(st) ==
    LET coords == PairThenFilter(SplitWhitespace(st.current_value))
    IN  [st EXCEPT !.coordinates = TransformChunks(st.coordinates, coords),
                   !.in_pos_list = FALSE,
                   !.current_value = <<>>]

EndPosList(st) ==
    LET coords == FilterMapParse(SplitWhitespace(st.current_value))
    IN  [st EXCEPT !.coordinates = TransformChunks(st.coordinates, coords),
                   !.in_pos_list = FALSE,
                   !.current_value = <<>>]

XEndElement(st, ev) ==
    IF ev.name = stringAttribute THEN EndStringAttribute(st)
    ELSE IF ev.name = intAttribute THEN EndIntAttribute(st)
    ELSE IF ev.name = doubleAttribute THEN EndDoubleAttribute(st)
    ELSE IF ev.name = posList THEN EndPosList(st)
    ELSE st

XTextEvent(st, ev) ==
    IF st.in_string_attr \/ st.in_int_attr \/ st.in_double_attr \/ st.in_pos_list
    THEN [st EXCEPT !.current_value = PushStr(st.current_value, ev.text)]
    ELSE st

\* Ok(Event::Eof) => break
XEofEvent(st) == [st EXCEPT !.done = TRUE]
\* a variant that discards what was collected when the tokenizer fails
XErrEventClears(st) == [XInitState EXCEPT !.done = TRUE]

\* Err(_) => break
XErrEvent(st) == [st EXCEPT !.done = TRUE]

XStep(st, ev) ==
    CASE ev.type = "Start" -> XStartElement(st, ev)
      [] ev.type = "End" -> XEndElement(st, ev)
      [] ev.type = "Text" -> XTextEvent(st, ev)
      [] ev.type = "Eof" -> XEofEvent(st)
      [] ev.type = "Err" -> XErrEvent(st)
      [] OTHER -> st

\* the value parse_city_object returns once its loop has ended
XResult(st) == [ok |-> TRUE, feature |-> GeoJsonFeature(st.properties, st.coordinates)]

(***************************************************************************)
(* parse_city_object as a state machine: the tokenizer hands the loop one  *)
(* event of the fragment at a time.  x_stack is the tokenizer's stack of   *)
(* open elements (it reports an end tag that does not match as an error),  *)
(* x_ev the event just handled (none once the loop has ended), x_ret the   *)
(* value returned.                                                         *)
(*                                                                         *)
(* xg is history, not program state.  It follows the fragment element by   *)
(* element: the recognized element now open with its own `name` attribute  *)
(* and the text read inside it, and what the elements closed so far amount *)
(* to.  nested: a recognized element was opened inside another one;        *)
(* nameless: an attribute element had no `name`; dropped: a pair of a      *)
(* posList failed to project; kept_after_drop: a pair was projected after  *)
(* an earlier one had failed; shifted: a posList with a non-numeric word   *)
(* before a numeric one and three numeric words was closed.                *)
(***************************************************************************)
VARIABLES pc, exists, dirs, files, files2, output_subdir, r_stack, r_n,
          in_city_object, current_object, object_depth, count,
          p_calls, p_closed, p_last, p_snap

pvars == <<pc, exists, dirs, files, files2, output_subdir, r_stack, r_n,
           in_city_object, current_object, object_depth, count,
           p_calls, p_closed, p_last, p_snap>>

VARIABLES xs, x_stack, x_n, x_ev, x_ret, xg

xvars == <<xs, x_stack, x_n, x_ev, x_ret, xg>>

Recognized == AttrKinds \cup {posList}
NoElem == [kind |-> "none"]
NoRet == [ok |-> FALSE]

XGInit ==
    [open |-> NoElem,
     nested |-> FALSE,
     nameless |-> FALSE,
     key |-> "",
     closed_ok |-> {},
     closed_fail |-> {},
     last |-> EmptyMap,
     dropped |-> FALSE,
     kept_after_drop |-> FALSE,
     shifted |-> FALSE]

\* what an attribute element of this kind makes of its inner text
ElemParse(kind, text) ==
    IF kind = stringAttribute THEN [ok |-> TRUE, val |-> PVString(text)]
    ELSE IF kind = intAttribute
    THEN LET r == ParseI64(text)
         IN  IF r.ok THEN [ok |-> TRUE, val |-> PVInt(r.val)] ELSE [ok |-> FALSE]
    ELSE LET r == ParseF64(text)
         IN  IF r.ok THEN [ok |-> TRUE, val |-> PVFloat(r.val)] ELSE [ok |-> FALSE]

\* the numeric words of a posList text, and the pairs they form
Surviving(text) == SelectSeq(text, LAMBDA w : ParseF64Word(w).ok)
PairsOf(text) ==
    LET surv == Surviving(text)
    IN  [i \in 1..(Len(surv) \div 2) |->
            <<ParseF64Word(surv[2 * i - 1]).val, ParseF64Word(surv[2 * i]).val>>]

GStart(g, ev) ==
    IF ev.name \in Recognized
    THEN [g EXCEPT !.nested = g.nested \/ g.open # NoElem,
                   !.nameless = g.nameless \/ (ev.name \in AttrKinds /\ ev.attr = NoName),
                   !.key = IF ev.name \in AttrKinds /\ ev.attr # NoName
                           THEN ev.attr ELSE g.key,
                   !.open = [kind |-> ev.name, attr |-> ev.attr, text |-> <<>>]]
    ELSE g

GText(g, ev) ==
    IF g.open # NoElem
    THEN [g EXCEPT !.open.text = PushStr(g.open.text, ev.text)]
    ELSE g

GEnd(g, ev) ==
    IF g.open # NoElem /\ ev.name = g.open.kind
    THEN IF ev.name = posList
         THEN LET text == g.open.text
                  pairs == PairsOf(text)
                  bad == {i \in DOMAIN pairs : ~Transform(pairs[i]).ok}
              IN  [g EXCEPT !.open = NoElem,
                            !.dropped = g.dropped \/ bad # {},
                            !.kept_after_drop = g.kept_after_drop
                                \/ (g.dropped /\ DOMAIN pairs # bad)
                                \/ \E i \in bad : \E j \in DOMAIN pairs \ bad : i < j,
                            !.shifted = g.shifted
                                \/ /\ bad = {}
                                   /\ Len(Surviving(text)) = 3
                                   /\ \E i, j \in DOMAIN text :
                                        /\ i < j
                                        /\ ~ParseF64Word(text[i]).ok
                                        /\ ParseF64Word(text[j]).ok]
         ELSE LET r == ElemParse(g.open.kind, g.open.text)
              IN  [g EXCEPT !.open = NoElem,
                            !.closed_ok = IF r.ok /\ g.open.attr # NoName
                                          THEN g.closed_ok \cup {g.open.attr}
                                          ELSE g.closed_ok,
                            !.closed_fail = IF ~r.ok /\ g.open.attr # NoName
                                            THEN g.closed_fail \cup {g.open.attr}
                                            ELSE g.closed_fail,
                            !.last = IF r.ok THEN Insert(g.last, g.key, r.val)
                                     ELSE g.last]
    ELSE g

XInit ==
    /\ xs = XInitState
    /\ x_stack = <<>>
    /\ x_n = 0
    /\ x_ev = NoEv
    /\ x_ret = NoRet
    /\ xg = XGInit

XRunning(max) == ~xs.done /\ x_n < max

XReadStart(tags, max) ==
    /\ XRunning(max)
    /\ Len(x_stack) < MaxXDepth
    /\ \E ev \in tags :
        /\ xs' = XStep(xs, ev)
        /\ x_stack' = Append(x_stack, ev.name)
        /\ x_ev' = ev
        /\ xg' = GStart(xg, ev)
    /\ x_n' = x_n + 1
    /\ UNCHANGED x_ret
    /\ UNCHANGED pvars

XReadEnd(max) ==
    /\ XRunning(max)
    /\ x_stack # <<>>
    /\ LET ev == EndEv(x_stack[Len(x_stack)])
       IN  /\ xs' = XStep(xs, ev)
           /\ x_ev' = ev
           /\ xg' = GEnd(xg, ev)
    /\ x_stack' = SubSeq(x_stack, 1, Len(x_stack) - 1)
    /\ x_n' = x_n + 1
    /\ UNCHANGED x_ret
    /\ UNCHANGED pvars

\* The texts the model draws: up to MaxWords words for the first text of a
\* posList, one word elsewhere.  A text that holds markup is no text event of the
\* fragment: the tokenizer reports it as an error (XReadErr).
XTextsAt(stack, g, texts, postexts) ==
    IF stack # <<>> /\ stack[Len(stack)] = posList /\ g.open.kind = posList
       /\ g.open.text = <<>>
    THEN postexts
    ELSE texts

\* with trim_text(true) a text event is never empty; two text events follow
\* one another only around an event of the Other kind
XReadText(texts, postexts, max) ==
    /\ XRunning(max)
    /\ x_ev.type # "Text"
    /\ \E t \in XTextsAt(x_stack, xg, texts, postexts) :
        LET ev == TextEv(t)
        IN  /\ xs' = XStep(xs, ev)
            /\ x_ev' = [type |-> "Text"]
            /\ xg' = GText(xg, ev)
    /\ x_n' = x_n + 1
    /\ UNCHANGED <<x_stack, x_ret>>
    /\ UNCHANGED pvars

XReadOther(max) ==
    /\ XRunning(max)
    /\ xs' = XStep(xs, OtherEv)
    /\ x_ev' = OtherEv
    /\ x_n' = x_n + 1
    /\ UNCHANGED <<x_stack, x_ret, xg>>
    /\ UNCHANGED pvars

XReadEof ==
    /\ ~xs.done
    /\ xs' = XStep(xs, EofEv)
    /\ x_ev' = NoEv
    /\ x_ret' = XResult(xs')
    /\ x_n' = x_n + 1
    /\ UNCHANGED <<x_stack, xg>>
    /\ UNCHANGED pvars

XReadErr ==
    /\ ~xs.done
    /\ xs' = XStep(xs, ErrEv)
    /\ x_ev' = NoEv
    /\ x_ret' = XResult(xs')
    /\ x_n' = x_n + 1
    /\ UNCHANGED <<x_stack, xg>>
    /\ UNCHANGED pvars

\* fragments of attribute elements: every kind of attribute element with and
\* without a name, and texts of one word
ExtractNext ==
    \/ XReadStart(StartTags, MaxXTokens)
    \/ XReadEnd(MaxXTokens)
    \/ XReadText(WordTexts \ {<<Wlt>>}, WordTexts \ {<<Wlt>>}, MaxXTokens)
    \/ XReadOther(MaxXTokens)
    \/ XReadEof
    \/ XReadErr

\* fragments of posLists: texts of up to MaxWords words, beside an attribute
\* element and an element that is not recognized
PosListTags ==
    {StartEv(posList, NoName), StartEv(value, NoName),
     StartEv(stringAttribute, ROUTE_ID)}

PosListNext ==
    \/ XReadStart(PosListTags, MaxPTokens)
    \/ XReadEnd(MaxPTokens)
    \/ XReadText({<<W1>>}, PosTexts, MaxPTokens)
    \/ XReadOther(MaxPTokens)
    \/ XReadEof
    \/ XReadErr

(***************************************************************************)
(* parse_city_object as parse_gml_file calls it: on the fragment it has    *)
(* rebuilt.  A fragment is the sequence of the pieces pushed to            *)
(* current_object: start tags, end tags and text.                          *)
(***************************************************************************)
\* current_object.push_str of a tag
PushTag(xml, piece) == Append(xml, piece)

\* current_object.push_str of a text: it joins a text the string ends with
PushText(xml, t) ==
    IF xml # <<>> /\ xml[Len(xml)].type = "Text"
    THEN [xml EXCEPT ![Len(xml)] = TextEv(PushStr(xml[Len(xml)].text, t))]
    ELSE Append(xml, TextEv(t))

\* Reader::from_str(xml): the events of the fragment up to its end.  Text
\* that holds markup no longer reads as text: the tokenizer ends in an error.
RECURSIVE Tokenize(_)
Tokenize(xml) ==
    IF xml = <<>> THEN <<EofEv>>
    ELSE IF Head(xml).type = "Text" /\ HasMarkup(Head(xml).text) THEN <<ErrEv>>
    ELSE <<Head(xml)>> \o Tokenize(Tail(xml))

RECURSIVE XLoop(_, _)
XLoop(st, events) ==
    IF st.done \/ events = <<>> THEN st
    ELSE XLoop(XStep(st, Head(events)), Tail(events))

parse_city_object(xml) == XResult(XLoop(XInitState, Tokenize(xml)))

(***************************************************************************)
(* The feature emitter of parse_gml_file.                                  *)
(***************************************************************************)
RECURSIVE IntToString(_)
\* i64::to_string of a number >= 0: its decimal digits
IntToString(i) ==
    LET d == <<"0", "1", "2", "3", "4", "5", "6", "7", "8", "9">>[(i % 10) + 1]
    IN  IF i < 10 THEN <<d>> ELSE Append(IntToString(i \div 10), d)

\* a variant whose fallback name counts the feature being written
IdStrCounted(id, n) ==
    IF id.tag = "String" THEN id.s
    ELSE IF id.tag = "Int" THEN <<IntToString(id.i)>>
    ELSE <<<<"object_">> \o IntToString(n + 1)>>

\* the match on the identifier value: the identifier string as a text
IdStr(id, n) ==
    IF id.tag = "String" THEN id.s
    ELSE IF id.tag = "Int" THEN <<IntToString(id.i)>>
    ELSE <<<<"object_">> \o IntToString(n)>>

\* format!("{}/{}/{}.json", output_dir, output_subdir, id_str)
OutputPath(subdir, id_str) ==
    [dir |-> <<"./output", subdir>>, file |-> id_str, ext |-> ".json"]

\* The path as the file system reads it.  The characters of the file name:
\* the words of the identifier string with a blank between them, then ".json".
RECURSIVE Flatten(_)
Flatten(text) ==
    IF text = <<>> THEN <<>>
    ELSE IF Len(text) = 1 THEN text[1]
    ELSE text[1] \o <<" ">> \o Flatten(Tail(text))

\* the components of a string of characters: what lies between separators
RECURSIVE Components(_)
Components(chars) ==
    IF \A i \in DOMAIN chars : chars[i] # Sep THEN <<chars>>
    ELSE LET i == CHOOSE i \in DOMAIN chars :
                    chars[i] = Sep /\ \A j \in 1..(i - 1) : chars[j] # Sep
         IN  <<SubSeq(chars, 1, i - 1)>> \o Components(SubSeq(chars, i + 1, Len(chars)))

\* the directory a list of components leads to from dir: ".." goes up, an
\* empty component and "." stay, every other component goes down
RECURSIVE Walk(_, _)
Walk(dir, comps) ==
    IF comps = <<>> THEN dir
    ELSE LET c == Head(comps)
         IN  Walk(IF c = <<Up>> THEN SubSeq(dir, 1, Len(dir) - 1)
                  ELSE IF c = <<>> \/ c = <<".">> THEN dir
                  ELSE Append(dir, c),
                  Tail(comps))

\* the directory the file of a path lies in, as a list of components below
\* the working directory
ParentDir(path) ==
    LET comps == Components(Flatten(path.file) \o <<path.ext>>)
    IN  Walk(<<<<"output">>, <<path.dir[2]>>>>, SubSeq(comps, 1, Len(comps) - 1))

\* the directories there are: the working directory and what
\* create_dir_all made
DirExists(dir, made) ==
    \/ dir = <<>>
    \/ dir = <<<<"output">>>> /\ "./output" \in made
    \/ dir = <<<<"output">>, <<"centerlines">>>> /\ "./output/centerlines" \in made
    \/ dir = <<<<"output">>, <<"pedestrian_zones">>>>
          /\ "./output/pedestrian_zones" \in made

\* a variant that writes every feature, under the fallback name when the
\* identifier is absent
EmitTargetAlways(feature, id_field, subdir, n) ==
    [some |-> TRUE,
     path |-> OutputPath(subdir,
                         IF HasKey(feature.properties, id_field)
                         THEN IdStr(feature.properties[id_field], n)
                         ELSE <<<<"object_">> \o IntToString(n)>>)]

\* if let Some(id) = feature.properties.get(id_field): the path to write
EmitTarget(feature, id_field, subdir, n) ==
    IF HasKey(feature.properties, id_field)
    THEN [some |-> TRUE,
          path |-> OutputPath(subdir,
                              IdStr(feature.properties[id_field], n))]
    ELSE [some |-> FALSE]

\* The orders in which a HashMap may iterate over its keys: std's
\* RandomState seeds every map anew, so any order can come out.
KeyOrders(m) ==
    {o \in [1..Cardinality(DOMAIN m) -> DOMAIN m] :
        \A i, j \in DOMAIN o : i # j => o[i] # o[j]}

\* serde_json::to_string_pretty: the fields in declaration order, the
\* properties in the map's iteration order
Serialize(feature, order) ==
    [type |-> feature.feature_type,
     geometry |-> [type |-> feature.geometry.geometry_type,
                   coordinates |-> feature.geometry.coordinates],
     properties |-> [i \in DOMAIN order |-> <<order[i], feature.properties[order[i]]>>]]

\* a file after File::create and a complete write_all, and after
\* File::create and a write_all that failed
Written(json) == [complete |-> TRUE, bytes |-> json]
Truncated == [complete |-> FALSE]
NoFile == [absent |-> TRUE]

(***************************************************************************)
(* main and parse_gml_file as a state machine.                             *)
(*                                                                         *)
(* pc is the place of main: "start" (before the directories are made),     *)
(* "centerlines" and "pedestrian_zones" (before the category's input file  *)
(* is looked up), "scan" (inside the loop of parse_gml_file, for the       *)
(* category output_subdir), "done" (main returned Ok) and "failed" (main   *)
(* returned an error).  exists says which input files are there; dirs and  *)
(* files are the file system under ./output.  r_stack is the tokenizer's   *)
(* stack of open elements and r_n the number of tokens it has delivered.   *)
(*                                                                         *)
(* files2 is the output of a second run of the program on the same input   *)
(* and the same file system, taken in step with the first: the two runs    *)
(* differ in nothing but the iteration order of their hash maps.           *)
(*                                                                         *)
(* p_calls, p_closed, p_last and p_snap are history: the number of calls   *)
(* of parse_city_object, the number of top-level target elements whose end *)
(* tag was read, the call made by the step just taken, and the files of a  *)
(* category at the moment a tokenizer error ended its scan.  p_last holds  *)
(* the fragment's feature, whether the tokenizer failed in it (err) and    *)
(* where (prefix), whether the identifier was there (some), the outcome of *)
(* lines 137-139 (io), the path and the file that was at the path (old);   *)
(* for a step that ends a scan it says whether an object was open (cut)    *)
(* and whether its identifier had been read (cut_id).                      *)
(***************************************************************************)
vars == <<pvars, xvars>>

Categories == {"centerlines", "pedestrian_zones"}
IdField(subdir) == IF subdir = "centerlines" THEN ROUTE_ID ELSE PED_ZONE_ID
\* where main goes on once parse_gml_file has returned Ok
AfterCategory(subdir) == IF subdir = "centerlines" THEN "pedestrian_zones" ELSE "done"

OutputDirs == <<"./output", "./output/centerlines", "./output/pedestrian_zones">>

\* the start tags and the texts the documents of the model are made of
DocStartTags ==
    {StartEv(GenericCityObject, NoName), StartEv(stringAttribute, ROUTE_ID),
     StartEv(stringAttribute, PED_ZONE_ID), StartEv(posList, NoName)}
DocTexts == {<<W1, W2>>, <<Wlt>>}

NoCall == [called |-> FALSE, cut |-> FALSE, cut_id |-> FALSE]
FilesIn(fs, subdir) == [q \in {q \in DOMAIN fs : q.dir[2] = subdir} |-> fs[q]]

PInit ==
    /\ pc = "start"
    /\ exists \in [Categories -> BOOLEAN]
    /\ dirs = {}
    /\ files = EmptyMap
    /\ files2 = EmptyMap
    /\ output_subdir = "centerlines"
    /\ r_stack = <<>>
    /\ r_n = 0
    /\ in_city_object = FALSE
    /\ current_object = <<>>
    /\ object_depth = 0
    /\ count = 0
    /\ p_calls = 0
    /\ p_closed = 0
    /\ p_last = NoCall
    /\ p_snap = EmptyMap

Init == PInit /\ XInit

locals == <<r_stack, in_city_object, current_object, object_depth>>
history == <<p_calls, p_closed, p_last, p_snap>>

\* a variant in which the counter goes on from one document to the next
EnterScanKeepsCount ==
    /\ r_stack' = <<>>
    /\ in_city_object' = FALSE
    /\ current_object' = <<>>
    /\ object_depth' = 0
    /\ count' = count

\* the locals of parse_gml_file as the function is entered (lines 78-85)
EnterScan ==
    /\ r_stack' = <<>>
    /\ in_city_object' = FALSE
    /\ current_object' = <<>>
    /\ object_depth' = 0
    /\ count' = 0

\* what the scan leaves behind when it stops: whether an object was open,
\* and whether its identifier had been read
Unfinished(seg, id_field) ==
    [called |-> FALSE,
     cut |-> seg.in_city_object,
     cut_id |-> /\ seg.in_city_object
                /\ HasKey(parse_city_object(seg.current_object).feature.properties,
                          id_field)]

\* the locals are dropped as the function returns; count has been reported
LeaveScan ==
    /\ r_stack' = <<>>
    /\ in_city_object' = FALSE
    /\ current_object' = <<>>
    /\ object_depth' = 0

\* main, lines 39-43: three create_dir_all calls, each of which can fail
CreateDirs ==
    /\ pc = "start"
    /\ \E k \in 0..3 :
        /\ dirs' = {OutputDirs[i] : i \in 1..k}
        /\ pc' = IF k = 3 THEN "centerlines" ELSE "failed"
    /\ UNCHANGED xvars
    /\ UNCHANGED <<exists, files, files2, output_subdir, r_n, locals, count, history>>

\* a variant in which a missing input file ends the run in an error
NotFoundArmFails(subdir) == "failed"

\* else { println!("Warning: {} not found", ..) }: where main goes on
NotFoundArm(subdir) == AfterCategory(subdir)

\* main, lines 48-54 and 57-63: the input file is absent
SkipCategory ==
    /\ pc \in Categories
    /\ ~exists[pc]
    /\ pc' = NotFoundArm(pc)
    /\ UNCHANGED xvars
    /\ UNCHANGED <<exists, dirs, files, files2, output_subdir, r_n, locals, count, history>>

\* the input file is there and read_to_string returns its content
BeginScan ==
    /\ pc \in Categories
    /\ exists[pc]
    /\ pc' = "scan"
    /\ output_subdir' = pc
    /\ EnterScan
    /\ p_last' = NoCall
    /\ UNCHANGED xvars
    /\ UNCHANGED <<exists, dirs, files, files2, r_n, p_calls, p_closed, p_snap>>

\* the input file is there and read_to_string fails
ReadFileFails ==
    /\ pc \in Categories
    /\ exists[pc]
    /\ pc' = "failed"
    /\ UNCHANGED xvars
    /\ UNCHANGED <<exists, dirs, files, files2, output_subdir, r_n, locals, count, history>>

Scanning(max) == pc = "scan" /\ r_n < max

\* the three locals the arms of the loop work on
Seg == [in_city_object |-> in_city_object,
        object_depth |-> object_depth,
        current_object |-> current_object]

SetSeg(seg) ==
    /\ in_city_object' = seg.in_city_object
    /\ object_depth' = seg.object_depth
    /\ current_object' = seg.current_object

\* a variant that captures every start tag, inside a target object or not
StartArmAppends(seg, ev) ==
    IF ev.name = GenericCityObject
    THEN [in_city_object |-> TRUE,
          object_depth |-> 1,
          current_object |-> PushTag(<<>>, ev)]
    ELSE [seg EXCEPT !.object_depth = seg.object_depth + 1,
                     !.current_object = PushTag(seg.current_object, ev)]

\* Ok(Event::Start(ref e)), lines 89-120
StartArm(seg, ev) ==
    IF ev.name = GenericCityObject
    THEN [in_city_object |-> TRUE,
          object_depth |-> 1,
          current_object |-> PushTag(<<>>, ev)]
    ELSE IF seg.in_city_object
    THEN [seg EXCEPT !.object_depth = seg.object_depth + 1,
                     !.current_object = PushTag(seg.current_object, ev)]
    ELSE seg

\* a variant that takes every end tag for the end of the object
EndArmCloses(seg, ev) ==
    IF seg.in_city_object
    THEN [seg EXCEPT !.current_object = PushTag(seg.current_object, ev),
                     !.object_depth = 0]
    ELSE seg

\* a variant that counts every end tag down, inside a target object or not
EndArmAlways(seg, ev) ==
    [seg EXCEPT !.current_object = PushTag(seg.current_object, ev),
                !.object_depth = seg.object_depth - 1]

\* Ok(Event::End(ref e)), lines 122-125: the end tag is pushed and the depth
\* decremented
EndArm(seg, ev) ==
    IF seg.in_city_object
    THEN [seg EXCEPT !.current_object = PushTag(seg.current_object, ev),
                     !.object_depth = seg.object_depth - 1]
    ELSE seg

\* Ok(Event::Text(e)), lines 151-156
TextArm(seg, t) ==
    IF seg.in_city_object
    THEN [seg EXCEPT !.current_object = PushText(seg.current_object, t)]
    ELSE seg

\* a variant that propagates the tokenizer error to main
ErrArmPropagates(subdir) == "failed"

\* Err(e) => { eprintln!(..); break } and then Ok(()): where main goes on
ErrArm(subdir) == AfterCategory(subdir)

ReadStart(tags, max, depth) ==
    /\ Scanning(max)
    /\ Len(r_stack) < depth
    /\ \E ev \in tags :
        /\ r_stack' = Append(r_stack, ev.name)
        /\ SetSeg(StartArm(Seg, ev))
    /\ r_n' = r_n + 1
    /\ p_last' = NoCall
    /\ UNCHANGED xvars
    /\ UNCHANGED <<pc, exists, dirs, files, files2, output_subdir, count,
                   p_calls, p_closed, p_snap>>

\* the outcomes of lines 137-139: all three calls succeed, or
\* to_string_pretty, File::create or write_all fails
IoOutcomes == {"ok", "serialize", "create", "write"}

\* a variant that swallows the failure and goes on with the scan
AfterWriteSwallows(io) == "scan"

\* the `?` of lines 137-139: a failure returns from parse_gml_file, and the
\* `?` of main (lines 51, 60) returns from main
AfterWrite(io) == IF io = "ok" THEN "scan" ELSE "failed"

\* a variant that leaves a file that is already there as it is
WriteFileKeeps(fs, path, json, io) ==
    IF HasKey(fs, path) THEN fs
    ELSE IF io = "ok" THEN Insert(fs, path, Written(json))
    ELSE IF io = "write" THEN Insert(fs, path, Truncated)
    ELSE fs

\* the file system after lines 137-139
WriteFile(fs, path, json, io) ==
    IF io = "ok" THEN Insert(fs, path, Written(json))
    ELSE IF io = "write" THEN Insert(fs, path, Truncated)
    ELSE fs

\* an end tag that closes a top-level target element: no other target
\* element is open around it
ClosesTopLevel(stack) ==
    /\ stack[Len(stack)] = GenericCityObject
    /\ \A i \in 1..(Len(stack) - 1) : stack[i] # GenericCityObject

\* Ok(Event::End(ref e)), lines 121-150
ReadEnd(max) ==
    /\ Scanning(max)
    /\ r_stack # <<>>
    /\ r_stack' = SubSeq(r_stack, 1, Len(r_stack) - 1)
    /\ r_n' = r_n + 1
    /\ p_closed' = IF ClosesTopLevel(r_stack) THEN p_closed + 1 ELSE p_closed
    /\ LET seg == EndArm(Seg, EndEv(r_stack[Len(r_stack)]))
       IN  IF in_city_object /\ seg.object_depth = 0
           THEN LET r == parse_city_object(seg.current_object)
                    t == EmitTarget(r.feature, IdField(output_subdir),
                                    output_subdir, count)
                    events == Tokenize(seg.current_object)
                    err == events[Len(events)].type = "Err"
                    call == [called |-> TRUE, err |-> err, feature |-> r.feature,
                             prefix |-> SubSeq(seg.current_object, 1, Len(events) - 1),
                             some |-> t.some,
                             toplevel |-> ClosesTopLevel(r_stack)]
                IN  /\ p_calls' = p_calls + 1
                    /\ IF r.ok /\ t.some
                       THEN \E io \in IoOutcomes :
                              \E o1, o2 \in KeyOrders(r.feature.properties) :
                                /\ io # "ok" => o1 = o2
                                /\ io \in {"ok", "write"} =>
                                        DirExists(ParentDir(t.path), dirs)
                                /\ files' = WriteFile(files, t.path,
                                                      Serialize(r.feature, o1), io)
                                /\ files2' = WriteFile(files2, t.path,
                                                       Serialize(r.feature, o2), io)
                                /\ p_last' = call @@ [io |-> io, path |-> t.path,
                                                       old |-> IF HasKey(files, t.path)
                                                               THEN files[t.path]
                                                               ELSE NoFile]
                                /\ pc' = AfterWrite(io)
                                /\ IF io = "ok"
                                   THEN /\ count' = count + 1
                                        /\ SetSeg([seg EXCEPT !.in_city_object = FALSE])
                                   ELSE /\ SetSeg(seg)
                                        /\ UNCHANGED count
                       ELSE /\ SetSeg([seg EXCEPT !.in_city_object = FALSE])
                            /\ p_last' = call @@ [io |-> "none"]
                            /\ UNCHANGED <<pc, files, files2, count>>
           ELSE /\ SetSeg(seg)
                /\ p_last' = NoCall
                /\ UNCHANGED <<pc, files, files2, count, p_calls>>
    /\ UNCHANGED xvars
    /\ UNCHANGED <<exists, dirs, output_subdir, p_snap>>

\* Ok(Event::Text(e)), lines 151-156.  With trim_text(true) a text event is
\* never empty.
ReadText(texts, max) ==
    /\ Scanning(max)
    /\ \E t \in texts : SetSeg(TextArm(Seg, t))
    /\ r_n' = r_n + 1
    /\ p_last' = NoCall
    /\ UNCHANGED xvars
    /\ UNCHANGED <<pc, exists, dirs, files, files2, output_subdir, r_stack, count,
                   p_calls, p_closed, p_snap>>

\* _ => {}, line 162
ReadOther(max) ==
    /\ Scanning(max)
    /\ r_n' = r_n + 1
    /\ p_last' = NoCall
    /\ UNCHANGED xvars
    /\ UNCHANGED <<pc, exists, dirs, files, files2, output_subdir, locals, count,
                   p_calls, p_closed, p_snap>>

\* Ok(Event::Eof) => break, then lines 167-168
ReadEof ==
    /\ pc = "scan"
    /\ pc' = AfterCategory(output_subdir)
    /\ LeaveScan
    /\ p_last' = Unfinished(Seg, IdField(output_subdir))
    /\ UNCHANGED xvars
    /\ UNCHANGED <<exists, dirs, files, files2, output_subdir, r_n, count,
                   p_calls, p_closed, p_snap>>

\* Err(e) => { eprintln!(..); break }, lines 158-161, then lines 167-168
ReadErr ==
    /\ pc = "scan"
    /\ pc' = ErrArm(output_subdir)
    /\ LeaveScan
    /\ p_last' = Unfinished(Seg, IdField(output_subdir))
    /\ p_snap' = Insert(p_snap, output_subdir, FilesIn(files, output_subdir))
    /\ UNCHANGED xvars
    /\ UNCHANGED <<exists, dirs, files, files2, output_subdir, r_n, count,
                   p_calls, p_closed>>

Next ==
    \/ CreateDirs
    \/ SkipCategory
    \/ BeginScan
    \/ ReadFileFails
    \/ ReadStart(DocStartTags, MaxTokens, MaxDepth)
    \/ ReadEnd(MaxTokens)
    \/ ReadText(DocTexts, MaxTokens)
    \/ ReadOther(MaxTokens)
    \/ ReadEof
    \/ ReadErr

Spec == Init /\ [][Next]_vars

\* The run of main on a CENTERLINE.gml whose objects carry the identifier as
\* a string, an integer or a double attribute, at depth 1 of the object.
IdStartTags ==
    {StartEv(GenericCityObject, NoName)}
    \cup {StartEv(n, ROUTE_ID) : n \in AttrKinds}
IdTexts == {<<W1>>}

IdInit == Init /\ exists = [c \in Categories |-> c = "centerlines"]

IdNext ==
    \/ CreateDirs
    \/ SkipCategory
    \/ BeginScan
    \/ ReadFileFails
    \/ ReadStart(IdStartTags, MaxIdTokens, MaxIdDepth)
    \/ ReadEnd(MaxIdTokens)
    \/ ReadText(IdTexts, MaxIdTokens)
    \/ ReadEof

IdSpec == IdInit /\ [][IdNext]_vars

\* The run of main on a CENTERLINE.gml whose objects carry a text identifier
\* that may hold a path separator and a parent component.
PathStartTags ==
    {StartEv(GenericCityObject, NoName), StartEv(stringAttribute, ROUTE_ID)}
PathTexts == {<<W1>>, <<Wup>>}

PathNext ==
    \/ CreateDirs
    \/ SkipCategory
    \/ BeginScan
    \/ ReadFileFails
    \/ ReadStart(PathStartTags, MaxPathTokens, MaxIdDepth)
    \/ ReadEnd(MaxPathTokens)
    \/ ReadText(PathTexts, MaxPathTokens)
    \/ ReadEof

PathSpec == IdInit /\ [][PathNext]_vars

\* parse_city_object alone, on every fragment within the bounds
ExtractInit == XInit /\ PInit /\ exists = [c \in Categories |-> FALSE]

ExtractSpec == ExtractInit /\ [][ExtractNext]_vars

PosListSpec == ExtractInit /\ [][PosListNext]_vars

(***************************************************************************)
(* Properties of the object segmenter and the feature emitter (Spec).      *)
(***************************************************************************)
\* a step that reads a start tag of a target element while a target object
\* is open
NestedTargetStart ==
    /\ pc = "scan" /\ in_city_object
    /\ Len(r_stack') = Len(r_stack) + 1
    /\ r_stack'[Len(r_stack')] = GenericCityObject

\* C1: a target start tag read while a target object is open does not start a
\* new capture: the accumulator is not reset, the tag is appended to it and
\* the depth goes up by one; and the extractor is called only when the end
\* tag of the outer, top-level object is read.
C1_NestedTargetKeepsCapture ==
    /\ [][NestedTargetStart =>
            /\ object_depth' = object_depth + 1
            /\ Len(current_object') = Len(current_object) + 1
            /\ SubSeq(current_object', 1, Len(current_object)) = current_object]_vars
    /\ [](p_last.called => p_last.toplevel)

\* C2: the extractor has been called exactly once for each top-level target
\* element whose end tag has been read, at the step that read it: after every
\* step the number of calls is the number of such elements.
C2_OncePerTopLevelObject == p_calls = p_closed

\* C3: a file is written (and the counter advanced) only by a step that
\* completes a fragment whose properties hold the identifier field; a step
\* that completes a fragment without it changes neither the files nor the
\* counter, raises no error and leaves the scan going, outside any object.
C3_WrittenOnlyWithIdentifier ==
    [][/\ (files' # files \/ (pc = "scan" /\ count' # count)) =>
            /\ p_last'.called
            /\ HasKey(p_last'.feature.properties, IdField(output_subdir))
       /\ (p_last'.called
           /\ ~HasKey(p_last'.feature.properties, IdField(output_subdir))) =>
            /\ files' = files
            /\ count' = count
            /\ pc' = "scan"
            /\ ~in_city_object']_vars

\* a complete fragment with a property, but not the identifier, was dropped
\* and the scan went on
C3_Witness ==
    /\ p_last.called
    /\ ~p_last.err
    /\ p_last.feature.properties # EmptyMap
    /\ ~HasKey(p_last.feature.properties, IdField(output_subdir))
    /\ files = EmptyMap
    /\ pc = "scan"

C8_Deterministic == files2 = files

\* a step in which a tokenizer error ends the scan of a document
TokenizerErrorStep == DOMAIN p_snap' # DOMAIN p_snap

\* C9: a tokenizer error ends the scan of its document only: the step leaves
\* the files as they are and parse_gml_file returns Ok, so that main goes on
\* to the next category (or finishes); and no later step changes a file of
\* the category whose scan the error ended.
C9_TokenizerErrorNotFatal ==
    [][/\ TokenizerErrorStep =>
            /\ files' = files
            /\ pc' = (IF output_subdir = "centerlines" THEN "pedestrian_zones"
                      ELSE "done")
       /\ \A d \in DOMAIN p_snap : FilesIn(files', d) = p_snap[d]]_vars

\* the centerlines scan was cut by an error after a file was written, the
\* pedestrian zones were then processed and written, and main finished
C9_Witness ==
    /\ pc = "done"
    /\ "centerlines" \in DOMAIN p_snap
    /\ p_snap["centerlines"] # EmptyMap
    /\ FilesIn(files, "centerlines") = p_snap["centerlines"]
    /\ FilesIn(files, "pedestrian_zones") # EmptyMap

\* a step in which main fails
FailureStep == pc # "failed" /\ pc' = "failed"

\* what is fatal: a failure of lines 137-139 ends the run in the failed state
\* and counts no feature, and nothing happens once the run has failed
FailureIsFatal ==
    /\ (p_last'.called /\ p_last'.io \in IoOutcomes \ {"ok"}) =>
            (pc' = "failed" /\ count' = count)
    /\ pc = "failed" => (pc' = "failed" /\ files' = files)

\* C10, as the spec states it: a failure is fatal, and the files written
\* before it are left as they are.
C10_FailureLeavesFilesAsTheyAre ==
    [][/\ FailureIsFatal
       /\ FailureStep =>
            \A q \in DOMAIN files : q \in DOMAIN files' /\ files'[q] = files[q]]_vars

\* C10, amended: a failure is fatal, and the files written before it at
\* every other path are left as they are; the file at the path being written
\* is left truncated when write_all fails after File::create, also when an
\* earlier feature of the run had been written to that path.
C10_FailureLeavesOtherFiles ==
    [][/\ FailureIsFatal
       /\ FailureStep =>
            \A q \in DOMAIN files :
                /\ q \in DOMAIN files'
                /\ \/ files'[q] = files[q]
                   \/ /\ p_last'.called /\ p_last'.io = "write"
                      /\ q = p_last'.path
                      /\ files'[q] = Truncated]_vars

\* the run failed in write_all on the path an earlier feature was written to
C10_Witness ==
    /\ pc = "failed"
    /\ p_last.called /\ p_last.io = "write"
    /\ count = 1
    /\ DOMAIN files = {p_last.path}
    /\ files[p_last.path] = Truncated

\* C11: a missing input file is no failure.  A step of main at a category
\* whose file is absent goes on to the next category (or finishes) and
\* changes no file; a category whose file is there is scanned (or the read
\* fails); centerlines come before pedestrian zones; a file is only ever
\* written for a category whose input is there; main fails only in
\* create_dir_all, in reading a file that is there, or in writing a feature;
\* and all three directories exist before a document is looked up.
C11_AbsentFileIsNoFailure ==
    /\ [][/\ (pc \in Categories /\ ~exists[pc]) =>
               /\ pc' = (IF pc = "centerlines" THEN "pedestrian_zones" ELSE "done")
               /\ files' = files
          /\ (pc \in Categories /\ exists[pc]) =>
               \/ pc' = "scan" /\ output_subdir' = pc
               \/ pc' = "failed"
          /\ pc' = "centerlines" => pc = "start"
          /\ pc' = "pedestrian_zones" =>
               \/ pc = "centerlines"
               \/ pc = "scan" /\ output_subdir = "centerlines"
          /\ (pc # "failed" /\ pc' = "failed") =>
               \/ pc = "start"
               \/ pc \in Categories /\ exists[pc]
               \/ p_last'.called /\ p_last'.io \in IoOutcomes \ {"ok"}]_vars
    /\ [](/\ \A q \in DOMAIN files : exists[q.dir[2]]
          /\ pc = "scan" => exists[output_subdir]
          /\ pc \in Categories \cup {"scan", "done"} =>
                dirs = {OutputDirs[i] : i \in 1..3}
          /\ files # EmptyMap => dirs = {OutputDirs[i] : i \in 1..3})

\* main finished with the centerlines absent and a pedestrian zone written,
\* in the directories made up front
C11_Witness ==
    /\ pc = "done"
    /\ ~exists["centerlines"] /\ exists["pedestrian_zones"]
    /\ FilesIn(files, "pedestrian_zones") # EmptyMap
    /\ FilesIn(files, "centerlines") = EmptyMap
    /\ "./output/centerlines" \in dirs

\* a step of the scan that reads a token while a target object is open
TokenInsideStep == pc = "scan" /\ in_city_object /\ r_n' = r_n + 1

\* the accumulator grown by one token: a piece appended, or a text joined to
\* the text it ends with
GrownByOneToken(old, new) ==
    \/ Len(new) = Len(old) + 1 /\ SubSeq(new, 1, Len(old)) = old
    \/ /\ Len(new) = Len(old) /\ new # old
       /\ SubSeq(new, 1, Len(old) - 1) = SubSeq(old, 1, Len(old) - 1)

\* C13: the fragment handed to the extractor is the markup of one top-level
\* object.  Every token read while a target object is open (a start tag, an
\* end tag, a self-closing element, a text) is appended to the accumulator,
\* once and behind what is there; and the fragment of a call is the
\* accumulator of a top-level object, from its start tag to its end tag.
C13_FragmentIsTheObject ==
    [][/\ TokenInsideStep => GrownByOneToken(current_object, current_object')
       /\ p_last'.called =>
            /\ p_last'.toplevel
            /\ current_object'[1].type = "Start"
            /\ current_object'[1].name = GenericCityObject
            /\ current_object'[Len(current_object')] = EndEv(GenericCityObject)]_vars

\* a step of the scan that reads, outside any target object, a token that is
\* no start tag of a target element
OutsideTokenStep ==
    /\ pc = "scan" /\ ~in_city_object
    /\ r_n' = r_n + 1
    /\ ~(/\ Len(r_stack') = Len(r_stack) + 1
         /\ r_stack'[Len(r_stack')] = GenericCityObject)

\* C16: outside a target object every token but a target start tag is
\* ignored: the flag, the depth, the accumulator, the counter and the files
\* stay as they are and the scan goes on.
C16_OutsideTokensIgnored ==
    [][OutsideTokenStep =>
        /\ in_city_object' = in_city_object
        /\ object_depth' = object_depth
        /\ current_object' = current_object
        /\ count' = count
        /\ files' = files
        /\ pc' = "scan"]_vars

\* after a feature was written, an element that is no target was opened and
\* closed outside any object and a text was read
C16_Witness ==
    /\ pc = "scan" /\ ~in_city_object
    /\ count = 1 /\ files # EmptyMap
    /\ ~p_last.called
    /\ r_stack = <<>>
    /\ r_n = 7
    /\ object_depth = 0
    /\ current_object # <<>>

\* a step of the scan that writes a file completely
WriteStep == p_last'.called /\ p_last'.some /\ p_last'.io = "ok"

\* C17: the counter is 0 when the scan of a document begins; a step of the
\* scan adds 1 to it if it writes a file completely and leaves it as it is
\* otherwise (a feature dropped for its missing identifier included), so it
\* never decreases and counts the files written for the document so far.
\* Nothing else goes from one feature to the next: a capture begins with an
\* accumulator that holds the start tag alone, the feature of a call is the
\* feature of the fragment alone, and its path that of the feature, the
\* category and the counter.
C17_CounterCountsWrites ==
    [][/\ (pc # "scan" /\ pc' = "scan") => count' = 0
       /\ (pc = "scan" /\ WriteStep) => count' = count + 1
       /\ (pc = "scan" /\ ~WriteStep) => count' = count
       /\ (pc = "scan" /\ ~in_city_object /\ in_city_object') =>
            Len(current_object') = 1
       /\ p_last'.called =>
            /\ p_last'.feature = parse_city_object(current_object').feature
            /\ p_last'.some <=>
                 HasKey(p_last'.feature.properties, IdField(output_subdir))
            /\ p_last'.some =>
                 p_last'.path =
                    OutputPath(output_subdir,
                               IdStr(p_last'.feature.properties[IdField(output_subdir)],
                                     count))]_vars

\* after one feature was written, a feature without identifier was dropped
\* and the counter stayed at 1
C17_Witness ==
    /\ pc = "scan"
    /\ p_last.called /\ ~p_last.some
    /\ count = 1
    /\ p_calls = 2
    /\ files # EmptyMap

\* C18: while a document is scanned the depth is never negative and the
\* flag is set exactly if the depth is at least 1; the depth is 0 after a
\* step that yields a fragment.  (Once a failure of lines 137-139 has
\* returned from the function its locals are gone.)
C18_FlagIffDepthPositive ==
    pc = "scan" =>
        /\ object_depth >= 0
        /\ in_city_object <=> object_depth >= 1
        /\ p_last.called => object_depth = 0

\* the end tag of an outer target element was read outside any object, after
\* the element nested in it had been yielded
C18_Witness ==
    /\ pc = "scan"
    /\ p_calls = 1 /\ p_closed = 1
    /\ ~p_last.called
    /\ r_stack = <<>>
    /\ ~in_city_object /\ object_depth = 0

\* a step in which the scan of a document stops and parse_gml_file returns Ok
ScanStopStep == pc = "scan" /\ pc' \in {"pedestrian_zones", "done"}

\* the start tags and the end tags of a fragment are as many
Balanced(xml) ==
    Cardinality({i \in DOMAIN xml : xml[i].type = "Start"}) =
    Cardinality({i \in DOMAIN xml : xml[i].type = "End"})

\* C19: an object that is still open when the scan stops is never handed to
\* the extractor and never written: the step that stops the scan calls
\* nothing and writes nothing, whatever the accumulator holds, and every
\* fragment that is handed over is complete, from a target start tag to its
\* end tag with as many start tags as end tags.
C19_PartialObjectNeverEmitted ==
    [][/\ ScanStopStep =>
            /\ ~p_last'.called
            /\ p_calls' = p_calls
            /\ count' = count
            /\ files' = files
       /\ files' # files => p_last'.called
       /\ p_last'.called =>
            /\ p_calls' = p_calls + 1
            /\ object_depth' = 0
            /\ current_object'[1].type = "Start"
            /\ current_object'[1].name = GenericCityObject
            /\ current_object'[Len(current_object')] = EndEv(GenericCityObject)
            /\ Balanced(current_object')]_vars

\* the run finished without a file: the scan had stopped inside an object
\* whose identifier had already been read
C19_Witness ==
    /\ pc = "done"
    /\ ~p_last.called /\ p_last.cut /\ p_last.cut_id
    /\ p_calls = 0
    /\ files = EmptyMap

(***************************************************************************)
(* Properties of the file name (IdSpec).                                   *)
(***************************************************************************)
\* C12: the step that completes a fragment with an identifier names its file
\* from the identifier value: the text itself for a text, the decimal digits
\* for an integer, and for every other kind "object_" followed by the value
\* the counter has before the step; the path is
\* ./output/<category>/<that string>.json and a successful write puts the
\* complete file there.
C12_FileNameFromIdentifier ==
    [][(p_last'.called /\ p_last'.some) =>
        LET id == p_last'.feature.properties[IdField(output_subdir)]
            path == p_last'.path
            name == path.file
        IN  /\ path.dir = <<"./output", output_subdir>>
            /\ path.ext = ".json"
            /\ id.tag = "String" => name = id.s
            /\ id.tag = "Int" =>
                 /\ Len(name) = 1
                 /\ IsDigits(name[1])
                 /\ DecimalValue(name[1]) = id.i
            /\ id.tag \notin {"String", "Int"} =>
                 /\ count < 10
                 /\ name = <<<<"object_",
                               <<"0", "1", "2", "3", "4", "5", "6", "7", "8", "9">>[count + 1]>>>>
            /\ p_last'.io = "ok" =>
                 /\ path \in DOMAIN files'
                 /\ files'[path].complete]_vars

\* the second feature of a document, with a floating-point identifier, was
\* written as object_1
C12_Witness ==
    /\ p_last.called /\ p_last.some /\ p_last.io = "ok"
    /\ count = 2
    /\ p_last.feature.properties[ROUTE_ID].tag = "Float"
    /\ p_last.path.file = <<<<"object_", "1">>>>
    /\ p_last.path \in DOMAIN files

\* C15: a feature whose path has been written before is written to the same
\* path: the write succeeds like any other, counts the feature, goes on with
\* the scan and leaves at the path the feature just completed, whatever was
\* there, and every other file as it was; so the files of the category are
\* at most as many as the features counted.
C15_LaterWriteReplaces ==
    /\ [][(p_last'.called /\ p_last'.some /\ p_last'.io = "ok") =>
            /\ count' = count + 1
            /\ pc' = "scan"
            /\ DOMAIN files' = DOMAIN files \cup {p_last'.path}
            /\ \A q \in DOMAIN files : q # p_last'.path => files'[q] = files[q]
            /\ files'[p_last'.path].complete
            /\ files'[p_last'.path].bytes.geometry.coordinates =
                    p_last'.feature.geometry.coordinates
            /\ LET written == files'[p_last'.path].bytes.properties
               IN  /\ Len(written) = Cardinality(DOMAIN p_last'.feature.properties)
                   /\ \A k \in DOMAIN p_last'.feature.properties :
                        \E i \in DOMAIN written :
                            written[i] = <<k, p_last'.feature.properties[k]>>]_vars
    /\ [](pc = "scan" =>
            Cardinality(DOMAIN FilesIn(files, output_subdir)) <= count)

\* the second feature of a document replaced the file of the first, which
\* held another feature under the same identifier string
C15_Witness ==
    /\ p_last.called /\ p_last.some /\ p_last.io = "ok"
    /\ p_last.old # NoFile
    /\ p_last.old # files[p_last.path]
    /\ count = 2
    /\ Cardinality(DOMAIN files) = 1
    /\ pc = "scan"

\* C20: every file the run has written lies directly in the directory of
\* its category, ./output/<category>, whatever the identifier holds.
C20_FilesInsideCategory ==
    \A q \in DOMAIN files :
        /\ q.dir[2] \in Categories
        /\ ParentDir(q) = <<<<"output">>, <<q.dir[2]>>>>

(***************************************************************************)
(* Properties of parse_city_object (ExtractSpec, PosListSpec).  They speak *)
(* of fragments in which no recognized element lies inside another one:    *)
(* the spec leaves the nested case undefined.                              *)
(***************************************************************************)
\* C5, as the spec states it: with every attribute element carrying a name,
\* the returned mapping holds an element's name if and only if the inner text
\* of that element parsed.
C5_EntryIffElementParsed ==
    (x_ret.ok /\ ~xg.nested /\ ~xg.nameless) =>
        \A n \in AttrNames :
            /\ n \in xg.closed_ok => HasKey(x_ret.feature.properties, n)
            /\ n \in xg.closed_fail => ~HasKey(x_ret.feature.properties, n)

\* C5, amended: the returned mapping holds a name if and only if the inner
\* text of at least one element closed under that name parsed, and it holds
\* the value of the last such element; an element whose text does not parse
\* adds no entry and changes none (no null, zero or default is stored).  An
\* element without a `name` attribute counts under the name set last before
\* it (the empty name if there is none).
C5_EntryIffSomeElementParsed ==
    (x_ret.ok /\ ~xg.nested) => x_ret.feature.properties = xg.last

\* two elements of one name were closed, one that parsed and one that did not
C5_Witness ==
    /\ x_ret.ok /\ ~xg.nested /\ ~xg.nameless
    /\ xg.closed_ok \cap xg.closed_fail # {}

\* a step that reads the end tag of a posList that holds no recognized element
PosListEndStep ==
    /\ ~xs.done /\ ~xg.nested
    /\ xg.open.kind = posList
    /\ x_n' = x_n + 1
    /\ x_ev' = EndEv(posList)

\* C6: the non-numeric words of a posList are removed first and the pairs are
\* made of what remains: if every pair projects, k numeric words add exactly
\* k \div 2 coordinates, the i-th being the projection of the numeric words
\* 2i-1 and 2i as (easting, northing); a last word without partner is dropped.
C6_FilterThenPair ==
    [][PosListEndStep =>
        LET surv == Surviving(xg.open.text)
            val(i) == ParseF64Word(surv[i]).val
            k == Len(surv)
            old == Len(xs.coordinates)
        IN  (\A i \in 1..(k \div 2) : Transform(<<val(2 * i - 1), val(2 * i)>>).ok) =>
                /\ Len(xs'.coordinates) = old + (k \div 2)
                /\ SubSeq(xs'.coordinates, 1, old) = xs.coordinates
                /\ \A i \in 1..(k \div 2) :
                     xs'.coordinates[old + i] =
                        Transform(<<val(2 * i - 1), val(2 * i)>>).point]_vars

\* a posList with a non-numeric word before a numeric one and three numeric
\* words gave one coordinate
C6_Witness ==
    /\ ~xg.nested /\ xg.shifted
    /\ Len(xs.coordinates) = 1

\* C7: a pair that fails to project adds nothing to the coordinates and stops
\* nothing: the posList adds the projections of its other pairs, in order,
\* the properties stay as they are and the loop goes on.
C7_FailedPairOnlyDropped ==
    [][PosListEndStep =>
        LET pairs == PairsOf(xg.open.text)
            good == SelectSeq(pairs, LAMBDA q : Transform(q).ok)
        IN  /\ xs'.coordinates =
                 xs.coordinates \o [i \in 1..Len(good) |-> Transform(good[i]).point]
            /\ xs'.properties = xs.properties
            /\ ~xs'.done]_vars

\* a pair was projected after an earlier pair had failed, in a fragment that
\* has a property
C7_Witness ==
    /\ ~xg.nested /\ xg.kept_after_drop
    /\ xs.coordinates # <<>>
    /\ xs.properties # EmptyMap

\* a step that reads the end tag of an attribute element that holds no
\* recognized element
AttrEndStep ==
    /\ ~xs.done /\ ~xg.nested
    /\ xg.open.kind \in AttrKinds
    /\ x_n' = x_n + 1
    /\ x_ev' = EndEv(xg.open.kind)

\* C14: the key set by a `name` attribute is in effect up to the end tag of
\* its element.  The end tag of an attribute element stores nothing under
\* the name of an element closed before it, unless that is the element's own
\* name: the entry of such a name is neither added nor changed, whether the
\* element has another name or no `name` attribute at all.
C14_KeyEndsWithItsElement ==
    [][AttrEndStep =>
        \A k \in xg.closed_ok \cup xg.closed_fail :
            k # xg.open.attr =>
                /\ HasKey(xs'.properties, k) <=> HasKey(xs.properties, k)
                /\ HasKey(xs.properties, k) =>
                     xs'.properties[k] = xs.properties[k]]_vars

=============================================================================
